---- MODULE Spec2Model ----
(***************************************************************************)
(* A model of Functions.py: the fact normalisation of get_fact and         *)
(* get_special_fact (de-duplication, length bands, missing-quarter         *)
(* inference, formatting), the batch loop of get_all_facts and the file    *)
(* cache of get_company_facts.                                             *)
(*                                                                         *)
(* Dates are day numbers in a calendar of 365-day years; day 365 is        *)
(* January 1 of year 1.  A data frame is a sequence of rows, a series is a *)
(* sequence of [Date, val] entries in index order.                         *)
(***************************************************************************)
EXTENDS Integers, Sequences, FiniteSets, TLC

\* The longest observation list of one concept that is explored.
MaxObs == 6

annual_form == "10-K"

quarter_form == "10-Q"

\* An observation as the companyfacts endpoint gives it: "start" is present
\* for flow concepts and absent for point-in-time concepts.
Obs(form, start, end, filed, val) ==
    [form |-> form, has_start |-> TRUE, start |-> start, end |-> end,
     filed |-> filed, val |-> val]

ObsNoStart(form, end, filed, val) ==
    [form |-> form, has_start |-> FALSE, start |-> 0, end |-> end,
     filed |-> filed, val |-> val]

\* The observations an explored concept is made of.  Year 1 runs from day 365
\* (Jan 1) to day 729 (Dec 31); its quarters end on days 454, 545 and 637.
Pool ==
    << Obs("10-Q", 365, 454, 470, 10),      \* Q1 of year 1, 89 days
       Obs("10-Q", 455, 545, 560, 20),      \* Q2, 90 days
       Obs("10-Q", 546, 637, 650, 30),      \* Q3, 91 days
       Obs("10-Q", 546, 637, 700, 31),      \* Q3 restated in a later filing
       Obs("10-Q", 365, 637, 650, 60),      \* nine months to Q3, same filing
       Obs("10-Q", 450, 545, 600, 21),      \* Q2 refiled later with 95 days
       Obs("10-Q", 366, 454, 480, 11),      \* 88 days, filed after Q1
       Obs("10-Q", 545, 637, 710, 32),      \* 92 days, filed after Q3
       Obs("10-Q", 638, 729, 740, 40),      \* a fourth quarter on form 10-Q
       Obs("10-Q", 730, 819, 830, 50),      \* Q1 of year 2
       Obs("10-K", 365, 729, 760, 100),     \* year 1, 364 days
       Obs("10-K", 366, 729, 800, 101),     \* year 1 restated, 363 days
       Obs("10-K", 367, 729, 810, 102),     \* year 1 refiled with 362 days
       Obs("10-K", 304, 668, 690, 95),      \* a fiscal year ending Oct 31
       Obs("10-K", 273, 637, 660, 96),      \* a fiscal year ending with Q3
       Obs("10-K", 730, 1094, 1110, 200),   \* year 2
       ObsNoStart("10-Q", 454, 470, 12),    \* point-in-time, no start
       ObsNoStart("10-K", 729, 760, 103),
       Obs("8-K", 455, 545, 560, 22) >>     \* another form

VARIABLES
    facts,            \* the concept's observation list (units[type_of_fact])
    per_share,        \* type_of_fact = 'USD/shares'
    newest_first,     \* the record lists later observations first
    loaded,           \* index in Pool of the last observation filed
    pc,               \* "load", "returned" or "raised"
    fn,               \* the function that ran last
    quarter_data,     \* the returned quarterly series
    annual_data,      \* the returned annual series
    quarter_admitted, \* quarter_data as built before the inference walk
    annual_admitted,  \* annual_data as built, before formatting
    inferred,         \* history of the points the inference walk wrote
    error             \* str(e) of the exception raised

factVars == <<facts, per_share, newest_first, loaded, pc, fn, quarter_data,
              annual_data, quarter_admitted, annual_admitted, inferred, error>>

----------------------------------------------------------------------------
(* Helpers on sequences *)

Range(s) == {s[j] : j \in 1..Len(s)}

Dates(series) == {series[j].Date : j \in 1..Len(series)}

\* row.year
Year(d) == d \div 365

----------------------------------------------------------------------------
(* sort_values(by=['end', 'filed'], ascending=[True, False]): stable *)

BeforeFiledAscending(a, b) ==
    a.end < b.end \/ (a.end = b.end /\ a.filed < b.filed)

Before(a, b) ==
    a.end < b.end \/ (a.end = b.end /\ a.filed > b.filed)

RECURSIVE InsertSorted(_, _)
InsertSorted(s, x) ==
    IF s = <<>> THEN <<x>>
    ELSE IF Before(x, Head(s)) THEN <<x>> \o s
    ELSE <<Head(s)>> \o InsertSorted(Tail(s), x)

RECURSIVE sort_values(_)
sort_values(df) ==
    IF df = <<>> THEN <<>>
    ELSE InsertSorted(sort_values(SubSeq(df, 1, Len(df) - 1)), df[Len(df)])

\* company_facts_df[company_facts_df['form'] == form]
SelectForm(df, form) == SelectSeq(df, LAMBDA row : row.form = form)

----------------------------------------------------------------------------
(* The length bands.  row['diff'] is NaT for a row without a start; NaT.days *)
(* is nan and every comparison with nan is False.                           *)

AnnualMinDays == 363

QuarterMinDays == 89

QuarterMaxDays == 91

AnnualLengthOff(row) ==
    row.has_start /\ row.end - row.start >= AnnualMinDays - 1

AnnualLength(row) ==
    row.has_start /\ row.end - row.start >= AnnualMinDays

QuarterLengthStrict(row) ==
    /\ row.has_start
    /\ row.end - row.start > QuarterMinDays
    /\ row.end - row.start <= QuarterMaxDays

QuarterLength(row) ==
    /\ row.has_start
    /\ row.end - row.start >= QuarterMinDays
    /\ row.end - row.start <= QuarterMaxDays

Entry(row) == [Date |-> row.end, val |-> row.val]

\* for _, row in annual_facts.iterrows(): ... (get_fact)
RECURSIVE AdmitAnnual(_, _, _)
AdmitAnnual(rows, annual_obtained, data) ==
    IF rows = <<>> THEN data
    ELSE LET row == Head(rows) IN
         IF row.end \in annual_obtained
         THEN AdmitAnnual(Tail(rows), annual_obtained, data)
         ELSE IF AnnualLength(row)
         THEN AdmitAnnual(Tail(rows), annual_obtained \cup {row.end},
                          Append(data, Entry(row)))
         ELSE AdmitAnnual(Tail(rows), annual_obtained, data)

\* for _, row in quarter_facts.iterrows(): ... (get_fact)
RECURSIVE AdmitQuarter(_, _, _)
AdmitQuarter(rows, quarter_obtained, data) ==
    IF rows = <<>> THEN data
    ELSE LET row == Head(rows) IN
         IF row.end \in quarter_obtained
         THEN AdmitQuarter(Tail(rows), quarter_obtained, data)
         ELSE IF QuarterLength(row)
         THEN AdmitQuarter(Tail(rows), quarter_obtained \cup {row.end},
                           Append(data, Entry(row)))
         ELSE AdmitQuarter(Tail(rows), quarter_obtained, data)

RECURSIVE AdmitSpecialNoDedup(_, _, _)
AdmitSpecialNoDedup(rows, obtained, data) ==
    IF rows = <<>> THEN data
    ELSE AdmitSpecialNoDedup(Tail(rows), obtained, Append(data, Entry(Head(rows))))

\* the two loops of get_special_fact: no length test
RECURSIVE AdmitSpecial(_, _, _)
AdmitSpecial(rows, obtained, data) ==
    IF rows = <<>> THEN data
    ELSE LET row == Head(rows) IN
         IF row.end \in obtained
         THEN AdmitSpecial(Tail(rows), obtained, data)
         ELSE AdmitSpecial(Tail(rows), obtained \cup {row.end},
                           Append(data, Entry(row)))

----------------------------------------------------------------------------
(* The missing-quarter inference walk *)

\* quarter_data.loc[row][fact]
Loc(qd, d) == qd[CHOOSE j \in 1..Len(qd) : qd[j].Date = d].val

\* quarter_data.loc[time] = v: overwrite the row if the label exists,
\* otherwise enlarge the frame with a new last row
SetLoc(qd, time, v) ==
    IF time \in Dates(qd)
    THEN [j \in 1..Len(qd) |->
             IF qd[j].Date = time THEN [Date |-> time, val |-> v] ELSE qd[j]]
    ELSE Append(qd, [Date |-> time, val |-> v])

\* annual_data[annual_data.index >= row]
AnnualAtOrAfter(ad, row) == SelectSeq(ad, LAMBDA e : e.Date >= row)

\* the count of accumulated quarters at which a point is written
QuartersSummed == 3

SyntheticValueNoSubtract(value, sum) == value

\* value - sum
SyntheticValue(value, sum) == value - sum

\* One iteration of "for row in quarter_data.index".  st.acc (the dates summed
\* so far) and st.log (the points written) are history, not program state.
WalkStep(st, row, ad) ==
    LET s1 == IF Year(row) = st.prev
              THEN [st EXCEPT !.counter = @ + 1,
                              !.sum = @ + Loc(st.qd, row),
                              !.acc = Append(@, row)]
              ELSE [st EXCEPT !.prev = Year(row),
                              !.sum = Loc(st.qd, row),
                              !.counter = 1,
                              !.acc = <<row>>]
        later == AnnualAtOrAfter(ad, row)
        s2 == IF Len(later) > 0
              THEN [s1 EXCEPT
                      !.qd = SetLoc(@, later[1].Date,
                                    SyntheticValue(later[1].val, s1.sum)),
                      !.log = Append(@, [time |-> later[1].Date,
                                         value |-> later[1].val,
                                         sum |-> s1.sum,
                                         row |-> row,
                                         quarters |-> s1.acc,
                                         overwrote |-> later[1].Date \in Dates(s1.qd)])]
              ELSE s1
    IN  IF s1.counter = QuartersSummed
        THEN [s2 EXCEPT !.sum = 0, !.counter = 0, !.acc = <<>>]
        ELSE s1

RECURSIVE Walk(_, _, _, _)
Walk(st, index, k, ad) ==
    IF k > Len(index) THEN st
    ELSE Walk(WalkStep(st, index[k], ad), index, k + 1, ad)

\* quarter_data.sort_index()
RECURSIVE InsertByDate(_, _)
InsertByDate(s, e) ==
    IF s = <<>> THEN <<e>>
    ELSE IF e.Date < Head(s).Date THEN <<e>> \o s
    ELSE <<Head(s)>> \o InsertByDate(Tail(s), e)

RECURSIVE SortByDate(_)
SortByDate(s) ==
    IF s = <<>> THEN <<>>
    ELSE InsertByDate(SortByDate(SubSeq(s, 1, Len(s) - 1)), s[Len(s)])

NoSortIndex(s) == s

sort_index(s) == SortByDate(s)

\* if len(quarter_data) > 0: ... quarter_data = quarter_data.sort_index()
Infer(qd, ad) ==
    IF Len(qd) > 0
    THEN LET index == [j \in 1..Len(qd) |-> qd[j].Date]
             st0 == [sum |-> 0, counter |-> 0, prev |-> Year(index[1]),
                     qd |-> qd, log |-> <<>>, acc |-> <<>>]
             st == Walk(st0, index, 1, ad)
         IN  [quarter_data |-> sort_index(st.qd), inferred |-> st.log]
    ELSE [quarter_data |-> qd, inferred |-> <<>>]

----------------------------------------------------------------------------
(* Formatting: f"{x:.0f}" of an integer is its decimal numeral *)

Format0f(x) == ToString(x)

FormatValue(share, x) == IF share THEN x ELSE Format0f(x)

FormatSeries(share, s) ==
    [j \in 1..Len(s) |-> [Date |-> s[j].Date, val |-> FormatValue(share, s[j].val)]]

----------------------------------------------------------------------------
(* get_fact and get_special_fact as functions of the observation list *)

Raised(msg) ==
    [raised |-> TRUE, error |-> msg, quarter_data |-> <<>>, annual_data |-> <<>>,
     quarter_admitted |-> <<>>, annual_admitted |-> <<>>, inferred |-> <<>>]

Returned(share, qadm, ad) ==
    LET inf == Infer(qadm, ad) IN
    [raised |-> FALSE, error |-> "",
     quarter_data |-> FormatSeries(share, inf.quarter_data),
     annual_data |-> FormatSeries(share, ad),
     quarter_admitted |-> qadm, annual_admitted |-> ad,
     inferred |-> inf.inferred]

\* company_facts_df['start'] raises KeyError when no observation of the list
\* has a start (the frame has no such column); an empty list has no column
get_fact(df, share) ==
    IF \A j \in 1..Len(df) : ~df[j].has_start
    THEN Raised("'start'")
    ELSE LET annual_facts == sort_values(SelectForm(df, annual_form))
             quarter_facts == sort_values(SelectForm(df, quarter_form))
         IN  Returned(share, AdmitQuarter(quarter_facts, {}, <<>>),
                      AdmitAnnual(annual_facts, {}, <<>>))

\* company_facts_df['end'] raises KeyError for an empty list
get_special_fact(df, share) ==
    IF df = <<>>
    THEN Raised("'end'")
    ELSE LET annual_facts == sort_values(SelectForm(df, annual_form))
             quarter_facts == sort_values(SelectForm(df, quarter_form))
         IN  Returned(share, AdmitSpecial(quarter_facts, {}, <<>>),
                      AdmitSpecial(annual_facts, {}, <<>>))

----------------------------------------------------------------------------
(* get_all_facts: the filing record and the loop over its concepts *)

\* The most concepts a filing record holds.
MaxConcepts == 3

\* The concepts a filing record is made of: units[type_of_fact] of each.
ConceptPool ==
    << [fact |-> "Revenues", per_share |-> FALSE,
        obs |-> <<Pool[1], Pool[2], Pool[3], Pool[11]>>],
       [fact |-> "EarningsPerShareBasic", per_share |-> TRUE,
        obs |-> <<Pool[11], Pool[4], Pool[3]>>],
       [fact |-> "Assets", per_share |-> FALSE,
        obs |-> <<Pool[17], Pool[18]>>],
       [fact |-> "Liabilities", per_share |-> FALSE,
        obs |-> <<Pool[18]>>],
       [fact |-> "Goodwill", per_share |-> FALSE,
        obs |-> <<>>] >>

\* The last day of the clock of the cache.
MaxDay == 12

VARIABLES
    us_gaap,          \* company_facts['facts']['us-gaap'], in key order
    k,                \* position of the loop of get_all_facts
    quarter_list,     \* the list quarter_data before pd.concat
    annual_list,      \* the list annual_data before pd.concat
    specialCase,      \* the (fact, str(e)) pairs
    bpc,              \* "loop", "returned" or "raised"
    wide,             \* the two tables returned
    now,              \* datetime.now(), in days
    file_exists,      \* os.path.exists(file_path)
    file_mtime,       \* os.path.getmtime(file_path), in days
    ret,              \* what get_company_facts returned last
    call              \* what that call saw of the file, and whether it requested

batchVars == <<us_gaap, k, quarter_list, annual_list, specialCase, bpc, wide>>

cacheVars == <<now, file_exists, file_mtime, ret, call>>

vars == <<factVars, batchVars, cacheVars>>

FactIdle ==
    /\ facts = <<>>
    /\ loaded = 0
    /\ pc = "load"
    /\ fn = "none"
    /\ quarter_data = <<>>
    /\ annual_data = <<>>
    /\ quarter_admitted = <<>>
    /\ annual_admitted = <<>>
    /\ inferred = <<>>
    /\ error = ""

BatchIdle ==
    /\ us_gaap = <<>>
    /\ k = 1
    /\ quarter_list = <<>>
    /\ annual_list = <<>>
    /\ specialCase = <<>>
    /\ bpc = "loop"
    /\ wide = <<>>

CacheIdle ==
    /\ now = 0
    /\ file_exists = FALSE
    /\ file_mtime = 0
    /\ ret = "none"
    /\ call = [exists |-> FALSE, age |-> 0, requested |-> FALSE]

----------------------------------------------------------------------------
(* The state machine of one concept *)

Init ==
    /\ FactIdle
    /\ per_share \in BOOLEAN
    /\ newest_first \in BOOLEAN
    /\ BatchIdle
    /\ CacheIdle

\* The filing record gains one observation.
File ==
    /\ pc = "load"
    /\ Len(facts) < MaxObs
    /\ \E i \in (loaded + 1)..Len(Pool) :
          /\ facts' = IF newest_first THEN <<Pool[i]>> \o facts
                      ELSE Append(facts, Pool[i])
          /\ loaded' = i
    /\ UNCHANGED <<per_share, newest_first, pc, fn, quarter_data, annual_data,
                   quarter_admitted, annual_admitted, inferred, error>>
    /\ UNCHANGED <<batchVars, cacheVars>>

Store(name, r) ==
    /\ fn' = name
    /\ pc' = IF r.raised THEN "raised" ELSE "returned"
    /\ error' = r.error
    /\ quarter_data' = r.quarter_data
    /\ annual_data' = r.annual_data
    /\ quarter_admitted' = r.quarter_admitted
    /\ annual_admitted' = r.annual_admitted
    /\ inferred' = r.inferred
    /\ UNCHANGED <<facts, per_share, newest_first, loaded>>
    /\ UNCHANGED <<batchVars, cacheVars>>

GetFact ==
    /\ pc = "load"
    /\ Store("get_fact", get_fact(facts, per_share))

\* called directly, or by the caller's except clause after get_fact raised
GetSpecialFact ==
    /\ pc = "load" \/ (pc = "raised" /\ fn = "get_fact")
    /\ Store("get_special_fact", get_special_fact(facts, per_share))

Next == File \/ GetFact \/ GetSpecialFact

Spec == Init /\ [][Next]_vars

----------------------------------------------------------------------------
(* The state machine of get_all_facts *)

Injective(s) == \A a, b \in DOMAIN s : s[a] = s[b] => a = b

RecordsOf(n) ==
    {[j \in 1..n |-> ConceptPool[s[j]]] :
        s \in {t \in [1..n -> 1..Len(ConceptPool)] : Injective(t)}}

Records == UNION {RecordsOf(n) : n \in 0..MaxConcepts}

InitBatch ==
    /\ FactIdle
    /\ per_share = FALSE
    /\ newest_first = FALSE
    /\ us_gaap \in Records
    /\ k = 1
    /\ quarter_list = <<>>
    /\ annual_list = <<>>
    /\ specialCase = <<>>
    /\ bpc = "loop"
    /\ wide = <<>>
    /\ CacheIdle

RECURSIVE SortedDates(_)
SortedDates(S) ==
    IF S = {} THEN <<>>
    ELSE LET d == CHOOSE x \in S : \A y \in S : x <= y
         IN  <<d>> \o SortedDates(S \ {d})

\* pd.concat(frames, axis=1): the outer join of the columns on the dates
Concat(frames) ==
    [index |-> SortedDates(UNION {Dates(frames[j]) : j \in 1..Len(frames)}),
     columns |-> frames]

\* One iteration of "for fact in ...keys()": get_fact, and in the except
\* clause the append to specialCase and get_special_fact, whose exception
\* nothing catches.
AllFactsIter ==
    /\ bpc = "loop"
    /\ k <= Len(us_gaap)
    /\ LET c == us_gaap[k]
           first == get_fact(c.obs, c.per_share)
           second == get_special_fact(c.obs, c.per_share)
           got == IF first.raised THEN second ELSE first
       IN  /\ specialCase' = IF first.raised
                             THEN Append(specialCase, <<c.fact, first.error>>)
                             ELSE specialCase
           /\ IF got.raised
              THEN /\ bpc' = "raised"
                   /\ UNCHANGED <<k, quarter_list, annual_list>>
              ELSE /\ bpc' = "loop"
                   /\ k' = k + 1
                   /\ quarter_list' = Append(quarter_list, got.quarter_data)
                   /\ annual_list' = Append(annual_list, got.annual_data)
    /\ UNCHANGED <<us_gaap, wide>>
    /\ UNCHANGED <<factVars, cacheVars>>

\* The two pd.concat calls and the return; pd.concat of an empty list raises
\* ValueError.
AllFactsConcat ==
    /\ bpc = "loop"
    /\ k > Len(us_gaap)
    /\ IF quarter_list = <<>>
       THEN bpc' = "raised" /\ UNCHANGED wide
       ELSE /\ bpc' = "returned"
            /\ wide' = <<Concat(quarter_list), Concat(annual_list)>>
    /\ UNCHANGED <<us_gaap, k, quarter_list, annual_list, specialCase>>
    /\ UNCHANGED <<factVars, cacheVars>>

NextBatch == AllFactsIter \/ AllFactsConcat

SpecBatch == InitBatch /\ [][NextBatch]_vars

----------------------------------------------------------------------------
(* The state machine of get_company_facts and its cached file *)

\* timedelta(days=10)
CacheDays == 10

InitCache ==
    /\ FactIdle
    /\ per_share = FALSE
    /\ newest_first = FALSE
    /\ BatchIdle
    /\ CacheIdle

\* A day passes.
Tick ==
    /\ now < MaxDay
    /\ now' = now + 1
    /\ UNCHANGED <<file_exists, file_mtime, ret, call>>
    /\ UNCHANGED <<factVars, batchVars>>

\* datetime.now() - file_mod_time < timedelta(days=10)
Fresh == file_exists /\ now - file_mtime < CacheDays

Seen(requested) ==
    [exists |-> file_exists,
     age |-> IF file_exists THEN now - file_mtime ELSE 0,
     requested |-> requested]

\* The file is returned: no request is made.
CompanyFactsFromFile ==
    /\ Fresh
    /\ ret' = "file"
    /\ call' = Seen(FALSE)
    /\ UNCHANGED <<now, file_exists, file_mtime>>
    /\ UNCHANGED <<factVars, batchVars>>

\* requests.get succeeds: the file is written and the facts returned.
CompanyFactsFromApi ==
    /\ ~Fresh
    /\ ret' = "api"
    /\ call' = Seen(TRUE)
    /\ file_exists' = TRUE
    /\ file_mtime' = now
    /\ UNCHANGED now
    /\ UNCHANGED <<factVars, batchVars>>

\* requests.get or raise_for_status raises RequestException: the error
\* dictionary is returned and the file is left as it is.
CompanyFactsError ==
    /\ ~Fresh
    /\ ret' = "error"
    /\ call' = Seen(TRUE)
    /\ UNCHANGED <<now, file_exists, file_mtime>>
    /\ UNCHANGED <<factVars, batchVars>>

NextCache ==
    Tick \/ CompanyFactsFromFile \/ CompanyFactsFromApi \/ CompanyFactsError

SpecCache == InitCache /\ [][NextCache]_vars

----------------------------------------------------------------------------
(* The properties.  The bands are written here with the numbers of the     *)
(* statements, independently of the definitions above.                     *)

InAnnualBand(o) == o.has_start /\ o.end - o.start >= 363

InQuarterBand(o) ==
    o.has_start /\ o.end - o.start >= 89 /\ o.end - o.start <= 91

InBandOf(o) ==
    \/ o.form = annual_form /\ InAnnualBand(o)
    \/ o.form = quarter_form /\ InQuarterBand(o)

SeriesOf(form) == IF form = annual_form THEN annual_data ELSE quarter_data

AdmittedOf(form) ==
    IF form = annual_form THEN annual_admitted ELSE quarter_admitted

ValueAt(series, d) ==
    series[CHOOSE j \in 1..Len(series) : series[j].Date = d].val

StrictlyIncreasing(series) ==
    \A j \in 1..(Len(series) - 1) : series[j].Date < series[j + 1].Date

GetFactReturned == pc = "returned" /\ fn = "get_fact"

InferredTimes == {inferred[n].time : n \in 1..Len(inferred)}

EndsOf(form) == {o.end : o \in {x \in Range(facts) : x.form = form}}

\* b restates a: same form and period end, both in band, b filed later, and
\* no in-band observation of that form and period end is filed after b
Restates(a, b) ==
    /\ a.form = b.form
    /\ a.form \in {annual_form, quarter_form}
    /\ a.end = b.end
    /\ InBandOf(a) /\ InBandOf(b)
    /\ a.filed < b.filed
    /\ \A c \in Range(facts) :
          (c.form = b.form /\ c.end = b.end /\ InBandOf(c) /\ c # b)
             => c.filed < b.filed

\* C1: when get_fact returns, for two in-band observations of one form with
\* the same period end and different filed dates, the series of that form
\* holds at that period end the value of the later-filed one (the list is
\* explored in both orders).
C1_RestatementWins ==
    GetFactReturned =>
        \A a, b \in Range(facts) :
            Restates(a, b) =>
                /\ b.end \in Dates(SeriesOf(b.form))
                /\ ValueAt(SeriesOf(b.form), b.end) = FormatValue(per_share, b.val)

RECURSIVE SumVals(_)
SumVals(series) ==
    IF series = <<>> THEN 0 ELSE Head(series).val + SumVals(Tail(series))

QuartersOfYear(Y) == SelectSeq(quarter_admitted, LAMBDA e : Year(e.Date) = Y)

YearsAdmitted == {Year(e.Date) : e \in Range(quarter_admitted)}

\* exactly three admitted quarters in year Y, and a is an annual entry of
\* year Y ending after the third
ThreeQuartersAndAnnual(Y, a) ==
    /\ Len(QuartersOfYear(Y)) = 3
    /\ Year(a.Date) = Y
    /\ a.Date > QuartersOfYear(Y)[3].Date

FourthQuarterAt(Y, a) ==
    /\ a.Date \in Dates(quarter_data)
    /\ ValueAt(quarter_data, a.Date) =
          FormatValue(per_share, a.val - SumVals(QuartersOfYear(Y)))
    /\ StrictlyIncreasing(quarter_data)

\* no annual entry ends on or after the year's first quarter and before a
FirstAnnualOfTheYear(Y, a) ==
    \A b \in Range(annual_admitted) :
        b.Date >= QuartersOfYear(Y)[1].Date => b.Date >= a.Date

\* C2 as stated: when get_fact returns, with exactly three admitted quarters
\* in calendar year Y and an annual entry of year Y ending after the third,
\* the quarterly series holds at that annual period end the annual value
\* minus the sum of the three quarters, and is in ascending date order.
C2_MissingQuarter ==
    GetFactReturned =>
        \A Y \in YearsAdmitted, a \in Range(annual_admitted) :
            ThreeQuartersAndAnnual(Y, a) => FourthQuarterAt(Y, a)

\* C2 as amended: the same, for the annual entry that is the earliest one
\* ending on or after the year's first quarterly period end.
C2_MissingQuarterFirstAnnual ==
    GetFactReturned =>
        \A Y \in YearsAdmitted, a \in Range(annual_admitted) :
            (ThreeQuartersAndAnnual(Y, a) /\ FirstAnnualOfTheYear(Y, a))
                => FourthQuarterAt(Y, a)

\* Quarters 10, 20, 30 and annual 100 have given 40 at the annual period end.
C2_Witness ==
    /\ GetFactReturned
    /\ \E Y \in YearsAdmitted, a \in Range(annual_admitted) :
          /\ ThreeQuartersAndAnnual(Y, a)
          /\ FirstAnnualOfTheYear(Y, a)
          /\ a.val = 100
          /\ [j \in 1..3 |-> QuartersOfYear(Y)[j].val] = <<10, 20, 30>>
          /\ ValueAt(quarter_data, a.Date) = FormatValue(per_share, 40)

\* C3: when get_fact returns, every point the inference wrote was computed
\* from an annual observation whose period (start, end] contains the period
\* ends of the three quarters that were summed.
C3_SameFiscalYear ==
    GetFactReturned =>
        \A n \in 1..Len(inferred) :
            \E o \in Range(facts) :
                /\ o.form = annual_form
                /\ InAnnualBand(o)
                /\ o.end = inferred[n].time
                /\ o.val = inferred[n].value
                /\ \A m \in 1..Len(inferred[n].quarters) :
                      /\ o.start < inferred[n].quarters[m]
                      /\ inferred[n].quarters[m] <= o.end

\* C4: when get_fact returns, every annual entry is the period end and value
\* of a 10-K observation of at least 363 days, and every quarterly entry the
\* inference did not write is the period end and value of a 10-Q observation
\* of 89 to 91 days.
C4_LengthBands ==
    GetFactReturned =>
        /\ \A e \in Range(annual_data) :
              \E o \in Range(facts) :
                  /\ o.form = annual_form
                  /\ InAnnualBand(o)
                  /\ o.end = e.Date
                  /\ FormatValue(per_share, o.val) = e.val
        /\ \A e \in Range(quarter_data) :
              e.Date \notin InferredTimes =>
                  \E o \in Range(facts) :
                      /\ o.form = quarter_form
                      /\ InQuarterBand(o)
                      /\ o.end = e.Date
                      /\ FormatValue(per_share, o.val) = e.val

\* Both series are populated although the list holds a 10-Q observation of
\* 95 days, one of 88 days and a 10-K observation of 362 days.
C4_Witness ==
    /\ GetFactReturned
    /\ Len(annual_data) > 0
    /\ Len(quarter_data) > 0
    /\ \E o \in Range(facts) :
          o.form = quarter_form /\ o.has_start /\ o.end - o.start = 95
    /\ \E o \in Range(facts) :
          o.form = quarter_form /\ o.has_start /\ o.end - o.start = 88
    /\ \E o \in Range(facts) :
          o.form = annual_form /\ o.has_start /\ o.end - o.start = 362

\* C5: get_all_facts does not end by raising, whatever concept of a
\* non-empty filing record fails in get_fact and in get_special_fact.
C5_BatchNeverAborts == Len(us_gaap) > 0 => bpc # "raised"

\* C6: when an observation of the list has no start, get_fact raises.
C6_MissingStartRaises ==
    (fn = "get_fact" /\ \E o \in Range(facts) : ~o.has_start) => pc = "raised"

\* the observations of a form and period end that no other one of that form
\* and period end was filed after
LatestFiled(form, d) ==
    {o \in Range(facts) :
        /\ o.form = form
        /\ o.end = d
        /\ \A c \in Range(facts) :
              (c.form = form /\ c.end = d) => c.filed <= o.filed}

InBandAt(form, d) ==
    {o \in Range(facts) : o.form = form /\ o.end = d /\ InBandOf(o)}

\* C7 as stated: when get_fact returns, a period end whose most recently
\* filed observation of a form is out of band is absent from the series
\* admitted for that form.
C7_DedupBeforeFilter ==
    GetFactReturned =>
        \A form \in {annual_form, quarter_form} :
            \A d \in EndsOf(form) :
                (\A o \in LatestFiled(form, d) : ~InBandOf(o))
                    => d \notin Dates(AdmittedOf(form))

\* C7 as amended: when get_fact returns, a period end is admitted for a form
\* exactly when some observation of that form and period end is in band, and
\* it is admitted with the value of the most recently filed in-band one; the
\* annual series returned holds that value.
C7_FirstInBandAdmitted ==
    GetFactReturned =>
        \A form \in {annual_form, quarter_form} :
            \A d \in EndsOf(form) :
                /\ d \in Dates(AdmittedOf(form)) <=> InBandAt(form, d) # {}
                /\ InBandAt(form, d) # {} =>
                      \E o \in InBandAt(form, d) :
                          /\ \A c \in InBandAt(form, d) : c.filed <= o.filed
                          /\ ValueAt(AdmittedOf(form), d) = o.val
                          /\ form = annual_form =>
                                ValueAt(annual_data, d) =
                                    FormatValue(per_share, o.val)

\* An in-band observation was admitted although a later-filed observation of
\* its form and period end is out of band.
C7_Witness ==
    /\ GetFactReturned
    /\ \E form \in {annual_form, quarter_form} :
          \E o \in Range(facts) :
              /\ o.form = form
              /\ InBandOf(o)
              /\ \A l \in LatestFiled(form, o.end) :
                    ~InBandOf(l) /\ l.filed > o.filed
              /\ o.end \in Dates(AdmittedOf(form))
              /\ ValueAt(AdmittedOf(form), o.end) = o.val

\* one observation per form and period end, each 10-K and 10-Q one in band
SingleAndInBand ==
    \A i \in 1..Len(facts) :
        /\ facts[i].has_start
        /\ facts[i].form \in {annual_form, quarter_form} => InBandOf(facts[i])
        /\ \A j \in 1..Len(facts) :
              (facts[j].form = facts[i].form /\ facts[j].end = facts[i].end)
                 => j = i

\* C8 as stated: when get_fact returns for a list with one in-band
\* observation per period end, each series is as long as the number of
\* distinct period ends of its form.
C8_SeriesLength ==
    (GetFactReturned /\ SingleAndInBand) =>
        /\ Len(annual_data) = Cardinality(EndsOf(annual_form))
        /\ Len(quarter_data) = Cardinality(EndsOf(quarter_form))

\* C8 as amended: the annual series is as long as the number of distinct
\* 10-K period ends; the quarterly series counts the distinct 10-Q period
\* ends together with the annual period ends at which the inference wrote.
C8_SeriesLengthWithInferred ==
    (GetFactReturned /\ SingleAndInBand) =>
        /\ Len(annual_data) = Cardinality(EndsOf(annual_form))
        /\ InferredTimes \subseteq EndsOf(annual_form)
        /\ Len(quarter_data) =
              Cardinality(EndsOf(quarter_form) \cup InferredTimes)

\* Three quarters and the annual total have given a quarterly series of four.
C8_Witness ==
    /\ GetFactReturned
    /\ SingleAndInBand
    /\ Cardinality(EndsOf(quarter_form)) = 3
    /\ Cardinality(EndsOf(annual_form)) = 1
    /\ Len(quarter_data) = 4
    /\ Len(annual_data) = 1

\* C9: the file is returned only when it is less than one day old, and a
\* call that finds it one day old or older requests the facts again.
C9_OneDayFreshness ==
    /\ ret = "file" => call.age < 1
    /\ (ret # "none" /\ call.exists /\ call.age >= 1) => call.requested

\* C10: whenever get_fact or get_special_fact returns, both series are in
\* strictly increasing date order, hence with one entry per date.
C10_StrictlyIncreasing ==
    pc = "returned" =>
        /\ StrictlyIncreasing(quarter_data)
        /\ StrictlyIncreasing(annual_data)

\* The inference wrote a point dated before the last admitted quarter.
C10_Witness ==
    /\ GetFactReturned
    /\ \E n \in 1..Len(inferred) :
          /\ ~inferred[n].overwrote
          /\ inferred[n].time < quarter_admitted[Len(quarter_admitted)].Date

\* every observation has a start, every 10-K one spans at least 363 days and
\* every 10-Q one 89 to 91 days
AllSpanned ==
    \A o \in Range(facts) :
        /\ o.has_start
        /\ o.form = annual_form => InAnnualBand(o)
        /\ o.form = quarter_form => InQuarterBand(o)

\* C11: when get_special_fact returns, it has admitted for each form every
\* period end of that form, whatever the span, with the value of a most
\* recently filed observation; and on a list whose observations all have a
\* start and an in-band span, the series returned by one of the two functions
\* are the series the other function computes from the same list.
C11_FallbackAgrees ==
    /\ (pc = "returned" /\ fn = "get_special_fact") =>
          \A form \in {annual_form, quarter_form} :
              /\ Dates(AdmittedOf(form)) = EndsOf(form)
              /\ Len(AdmittedOf(form)) = Cardinality(EndsOf(form))
              /\ \A d \in EndsOf(form) :
                    \E o \in LatestFiled(form, d) :
                        ValueAt(AdmittedOf(form), d) = o.val
    /\ (pc = "returned" /\ fn = "get_special_fact" /\ AllSpanned) =>
          /\ ~get_fact(facts, per_share).raised
          /\ quarter_data = get_fact(facts, per_share).quarter_data
          /\ annual_data = get_fact(facts, per_share).annual_data
    /\ (GetFactReturned /\ AllSpanned) =>
          /\ ~get_special_fact(facts, per_share).raised
          /\ quarter_data = get_special_fact(facts, per_share).quarter_data
          /\ annual_data = get_special_fact(facts, per_share).annual_data

\* get_special_fact has returned for an all-in-band list with a restated
\* quarter, and its inference has written a point.
C11_Witness ==
    /\ pc = "returned"
    /\ fn = "get_special_fact"
    /\ AllSpanned
    /\ Len(inferred) > 0
    /\ Len(annual_data) > 0
    /\ \E a, b \in Range(facts) : Restates(a, b) /\ a.val # b.val

\* C12: whenever get_fact or get_special_fact returns, every quarterly entry
\* admitted from a 10-Q observation is in the returned quarterly series with
\* the value of that observation.
C12_InferenceOnlyAdds ==
    pc = "returned" =>
        \A e \in Range(quarter_admitted) :
            /\ e.Date \in Dates(quarter_data)
            /\ ValueAt(quarter_data, e.Date) = FormatValue(per_share, e.val)

====
